---------------------------- MODULE Spec2Model ----------------------------
(***************************************************************************)
(* A model of @getsigil/core (src/src/sigil.ts): the SigilCore singleton,  *)
(* its marker reconciliation over a mutable document, its reconnecting     *)
(* WebSocket command channel and its auto-discovery of element ids.        *)
(***************************************************************************)
EXTENDS Integers, Sequences, FiniteSets, TLC

(***************************************************************************)
(* Bounds of the model.                                                    *)
(***************************************************************************)
\* socket objects that may be connecting, open or closing at the same time
MaxSockets == 3
\* interval timers that may be live at the same time
MaxTimers == 2
\* marker nodes one element may host at the same time
MaxMarkersPerHost == 2

(***************************************************************************)
(* The document.  Elements are a fixed pool of nodes; "e2" is a child of   *)
(* "e1" whenever it is linked, "e1" and "e3" are children of <body>.       *)
(***************************************************************************)
Elems == {"e1", "e2", "e3"}
\* the elements the page inserts, removes and relabels while Sigil runs
PageElems == {"e1", "e2"}
Body == "body"
\* strings are sequences of one-character strings; an absent attribute is a
\* value no string equals
NoAttr == <<"<absent>">>
\* the null of this.observer, this.wsConnection and this.wsReconnectTimer
Null == 0

ParentOf(e) == IF e = "e2" THEN "e1" ELSE Body

\* Elements that cannot have visible children
NO_CHILD_ELEMENTS ==
    {"INPUT", "TEXTAREA", "SELECT", "IMG", "BR", "HR", "META", "LINK",
     "AREA", "BASE", "COL", "EMBED", "PARAM", "SOURCE", "TRACK", "WBR"}

SocketIds == 1..MaxSockets
TimerIds == 1..MaxTimers

VARIABLES
    \* ---- the page ----
    tagOf,          \* element -> tagName (never changes)
    attrs,          \* element -> its other attributes and its own text
    linked,         \* element -> is it a child of ParentOf(element)
    labelOf,        \* element -> value of data-sigil-id, or NoAttr
    checked,        \* element -> its checked state
    values,         \* element -> its value
    layout,         \* the labeled element's bounding rectangle, the window size
    digest,         \* the bytes crypto.subtle.digest returns
    markers,        \* the div.sigil-marker nodes that exist
    stylesInjected, \* <style id="sigil-styles"> is in the head
    \* ---- SigilCore fields ----
    config,
    observer,       \* this.observer is non-null
    observing,      \* how many MutationObservers observe document.body
    mutationQueue,  \* added nodes recorded for the observer, not yet delivered
    markedElements,
    encoding,       \* addMarker calls suspended on `await this.encode(..)`
    initialized,
    encoded,        \* the MarkerEncoding encode() returned last
    wsConnection,
    wsReconnectTimer,
    \* ---- the host's sockets and timers ----
    hasWebSocket,   \* typeof WebSocket !== 'undefined' (never changes)
    sockets,        \* socket object -> readyState ("none": no such object)
    timers,         \* interval timers that are set and not cleared
    attemptBit,     \* history: flips whenever a socket is constructed
    inflight,       \* select commands waiting for their 200 ms timeout
    outbox,         \* the results wsConnection.send() was given, in order
    \* ---- history of the commands (not program state) ----
    received,       \* the commands delivered so far
    dropped,        \* the commands whose result sendResult did not send
    cmdLog,         \* per command: its data and the checkboxes it toggled
    routes,         \* per select whose timeout is in flight: the socket that
                    \* delivered it, Null once that socket has closed
    \* ---- history (not program state) ----
    reenabled,      \* configure() has just re-enabled a disabled instance
    fullScans,      \* whole-document scans since the document last changed
    passLog,        \* labelOf before the first autoDiscover() and after each
    covered,        \* labeled elements a delivered batch covered while enabled
                    \* that have had no overlay attached since
    disposed,       \* dispose() ran and neither init() nor configure() has
                    \* enabled the instance since
    mountCycle,     \* how far the calls init(), dispose(), init() have got:
                    \* 0 none, 1 init(), 2 then dispose(), 3 then init()
    visibility      \* the last of show and hide to run: "shown", "hidden",
                    \* or "unset" before either

pageVars == <<tagOf, attrs, linked, labelOf>>
reconVars == <<markers, stylesInjected, config, observer, observing,
              mutationQueue,
               markedElements, encoding, initialized>>
chanVars == <<hasWebSocket, wsConnection, wsReconnectTimer, sockets, timers,
              attemptBit>>
formVars == <<checked, values, layout>>
cmdVars == <<inflight, outbox, received, dropped, cmdLog, routes>>
encVars == <<digest, encoded>>
histVars ==
    <<reenabled, fullScans, passLog, covered, disposed, mountCycle,
      visibility>>
vars == <<pageVars, formVars, reconVars, chanVars, cmdVars, encVars, histVars>>

(***************************************************************************)
(* Document queries.                                                       *)
(***************************************************************************)
RECURSIVE InDocument(_)
InDocument(e) ==
    /\ linked[e]
    /\ \/ ParentOf(e) = Body
       \/ InDocument(ParentOf(e))

\* e lies strictly below root in the tree root currently heads
RECURSIVE IsDescendant(_, _)
IsDescendant(e, root) ==
    /\ linked[e]
    /\ ParentOf(e) # Body
    /\ \/ ParentOf(e) = root
       \/ IsDescendant(ParentOf(e), root)

HasAttr(e) == labelOf[e] # NoAttr

\* root.querySelectorAll('[data-sigil-id]') over the labels lab: root = Body
\* stands for `document`
QueryLabeledIn(lab, root) ==
    IF root = Body
    THEN {e \in Elems : lab[e] # NoAttr /\ InDocument(e)}
    ELSE {e \in Elems : lab[e] # NoAttr /\ IsDescendant(e, root)}

QueryLabeled(root) == QueryLabeledIn(labelOf, root)

CanHaveChildren(e) == tagOf[e] \notin NO_CHILD_ELEMENTS

\* a marker is in the document when it hangs off <body> (detached placement)
\* or off a host that is itself in the document (attached placement)
MarkerInDocument(m) == m.detached \/ InDocument(m.host)

\* document.querySelectorAll('.sigil-marker')
QueryMarkers == {m \in markers : MarkerInDocument(m)}

MarkersOf(e) == {m \in markers : m.host = e}

(***************************************************************************)
(* Configuration.  A SigilConfig argument is a record holding only the     *)
(* fields the caller supplied; { ...config, ...options } keeps the rest.   *)
(***************************************************************************)
DefaultConfig ==
    [enabled |-> TRUE, position |-> "center", zIndex |-> 9999,
     opacity |-> 1, wsPort |-> 5050]

NoOptions == [k \in {} |-> TRUE]

Merge(cfg, options) ==
    [k \in DOMAIN cfg |-> IF k \in DOMAIN options THEN options[k] ELSE cfg[k]]

\* init()'s reading of ?sigilWsPort=<n>: the port is overridden and an
\* opacity the caller left unset becomes 1
WithUrlPort(options, urlWsPort) ==
    IF urlWsPort = Null
    THEN options
    ELSE [k \in DOMAIN options \cup {"wsPort", "opacity"} |->
            IF k = "wsPort" THEN urlWsPort
            ELSE IF k \in DOMAIN options THEN options[k]
            ELSE 1]

(***************************************************************************)
(* addMarker, up to its await.                                             *)
(***************************************************************************)
\* the three early returns of addMarker under the mutation that drops the
\* membership check
AddMarkerAdmits_NoMembership(el, markerId, marked, cfg) ==
    /\ cfg.enabled
    /\ markerId \notin {NoAttr, <<>>}

\* the three early returns of addMarker: already marked, disabled, no id
AddMarkerAdmits(el, markerId, marked, cfg) ==
    /\ el \notin marked
    /\ cfg.enabled
    /\ markerId \notin {NoAttr, <<>>}

\* addMarker called on every element of S under configuration cfg, the
\* elements bearing the labels lab: each admitted element enters
\* markedElements and its call suspends on encode
AddMarkersIn(S, cfg, lab) ==
    LET admitted ==
          {el \in S : AddMarkerAdmits(el, lab[el], markedElements, cfg)}
    IN  /\ markedElements' = markedElements \cup admitted
        /\ encoding' = encoding \cup
              {[el |-> el, markerId |-> lab[el]] : el \in admitted}

AddMarkers(S, cfg) == AddMarkersIn(S, cfg, labelOf)

\* the elements scan(root) hands to addMarker
ScanTargetsIn(root, cfg, lab) ==
    IF ~cfg.enabled THEN {} ELSE QueryLabeledIn(lab, root)

ScanTargets(root, cfg) == ScanTargetsIn(root, cfg, labelOf)

CountScan(cfg) ==
    IF cfg.enabled /\ fullScans < 2 THEN fullScans + 1 ELSE fullScans

(***************************************************************************)
(* The observer.                                                           *)
(***************************************************************************)
\* the elements one delivered batch hands to addMarker: each added node
\* that bears the attribute, and whatever scan(node) finds below it
BatchTargets(batch, cfg) ==
    {el \in batch : HasAttr(el)}
        \cup UNION {ScanTargets(el, cfg) : el \in batch}

\* startObserver under the mutation that drops its guard
startObserver_Unguarded ==
    /\ observer' = TRUE
    /\ observing' = observing + 1

\* startObserver(): a new MutationObserver unless this.observer holds one
startObserver ==
    IF observer
    THEN UNCHANGED <<observer, observing>>
    ELSE /\ observer' = TRUE
         /\ observing' = observing + 1

\* stopObserver(): disconnect() ends the subscription
stopObserver ==
    IF observer
    THEN /\ observer' = FALSE
         /\ observing' = observing - 1
    ELSE UNCHANGED <<observer, observing>>

\* removeAllMarkers(): only markers the document query finds are removed
RemainingMarkers == markers \ QueryMarkers

(***************************************************************************)
(* The command channel.                                                    *)
(***************************************************************************)
IsOpen(s) == s # Null /\ sockets[s] = "open"

\* a socket object nothing refers to any more and that will fire no event
Collect(socks, keep) ==
    [s \in SocketIds |->
        IF socks[s] = "closed" /\ s # keep THEN "none" ELSE socks[s]]

\* the socket objects a new WebSocket may take: unused ones, and the closed
\* one this.wsConnection is about to stop referring to
FreeSockets == {s \in SocketIds : Collect(sockets, Null)[s] = "none"}

\* connectWebSocket(): nothing where the host has no WebSocket or while the
\* current socket is OPEN, otherwise
\* a new socket replaces this.wsConnection (the old object is not closed)
connectWebSocket ==
    IF ~hasWebSocket \/ IsOpen(wsConnection)
    THEN UNCHANGED <<sockets, wsConnection, attemptBit>>
    ELSE /\ FreeSockets # {}
         /\ LET s == CHOOSE x \in FreeSockets : \A y \in FreeSockets : x <= y
            IN  /\ sockets' = [Collect(sockets, Null) EXCEPT ![s] = "connecting"]
                /\ wsConnection' = s
         /\ attemptBit' = ~attemptBit

\* clearInterval(this.wsReconnectTimer); this.wsReconnectTimer = null
ClearReconnectTimer ==
    IF wsReconnectTimer # Null
    THEN /\ timers' = timers \ {wsReconnectTimer}
         /\ wsReconnectTimer' = Null
    ELSE UNCHANGED <<timers, wsReconnectTimer>>

\* the onclose handler under the mutation that drops its guard
OnCloseHandler_Unguarded ==
    /\ TimerIds \ timers # {}
    /\ LET t == CHOOSE x \in TimerIds \ timers :
                    \A y \in TimerIds \ timers : x <= y
       IN  /\ timers' = timers \cup {t}
           /\ wsReconnectTimer' = t

\* the onclose handler under the mutation that starts no reconnect loop
OnCloseHandler_NoLoop == UNCHANGED <<timers, wsReconnectTimer>>

\* the onclose handler: start the reconnect interval unless one is running
OnCloseHandler ==
    IF wsReconnectTimer = Null
    THEN /\ TimerIds \ timers # {}
         /\ LET t == CHOOSE x \in TimerIds \ timers :
                        \A y \in TimerIds \ timers : x <= y
            IN  /\ timers' = timers \cup {t}
                /\ wsReconnectTimer' = t
    ELSE UNCHANGED <<timers, wsReconnectTimer>>

\* the onopen handler: a successful connect cancels the reconnect loop
OnOpenHandler == ClearReconnectTimer

(***************************************************************************)
(* Auto-discovery.  Strings are sequences of one-character strings.        *)
(***************************************************************************)
UpperChars == <<"A", "B", "C", "D", "E", "F", "G", "H", "I", "J", "K", "L",
                "M", "N", "O", "P", "Q", "R", "S", "T", "U", "V", "W", "X",
                "Y", "Z">>
LowerChars == <<"a", "b", "c", "d", "e", "f", "g", "h", "i", "j", "k", "l",
                "m", "n", "o", "p", "q", "r", "s", "t", "u", "v", "w", "x",
                "y", "z">>
DigitChars == <<"0", "1", "2", "3", "4", "5", "6", "7", "8", "9">>
SpaceChars == {" ", "\t", "\n"}

Range(f) == {f[i] : i \in DOMAIN f}

\* String.prototype.toLowerCase, one character
ToLowerChar(c) ==
    IF c \in Range(UpperChars)
    THEN LowerChars[CHOOSE i \in DOMAIN UpperChars : UpperChars[i] = c]
    ELSE c

\* str.replace(/\s+/g, '-')
RECURSIVE CollapseSpaces(_)
CollapseSpaces(str) ==
    IF str = <<>> THEN <<>>
    ELSE IF Head(str) \in SpaceChars
    THEN IF Len(str) > 1 /\ str[2] \in SpaceChars
         THEN CollapseSpaces(Tail(str))
         ELSE <<"-">> \o CollapseSpaces(Tail(str))
    ELSE <<Head(str)>> \o CollapseSpaces(Tail(str))

\* sanitize's slice(0, 30)
MaxIdLength == 30
\* the longest trimmed text taken as a label source
MaxTextLength == 30

Prefix(str, n) == SubSeq(str, 1, IF Len(str) < n THEN Len(str) ELSE n)

\* sanitize(str)
sanitize(str) ==
    LET lower == [i \in DOMAIN str |-> ToLowerChar(str[i])]
        dashed == CollapseSpaces(lower)
        kept == SelectSeq(dashed,
                   LAMBDA c : c \in Range(LowerChars) \cup Range(DigitChars)
                                      \cup {"-"})
    IN  Prefix(kept, MaxIdLength)

\* String.prototype.trim
RECURSIVE TrimLeft(_)
TrimLeft(str) ==
    IF str # <<>> /\ Head(str) \in SpaceChars THEN TrimLeft(Tail(str)) ELSE str

RECURSIVE TrimRight(_)
TrimRight(str) ==
    IF str # <<>> /\ str[Len(str)] \in SpaceChars
    THEN TrimRight(SubSeq(str, 1, Len(str) - 1))
    ELSE str

Trim(str) == TrimRight(TrimLeft(str))

\* href.replace(/^[#/]+/, '')
RECURSIVE StripHashSlash(_)
StripHashSlash(str) ==
    IF str # <<>> /\ Head(str) \in {"#", "/"}
    THEN StripHashSlash(Tail(str))
    ELSE str

\* the decimal digits of a number, as `${index}` prints it
RECURSIVE NumStr(_)
NumStr(n) ==
    IF n < 10 THEN <<DigitChars[n + 1]>>
    ELSE NumStr(n \div 10) \o <<DigitChars[(n % 10) + 1]>>

\* el.tagName.toLowerCase()
TagName(e) ==
    CASE tagOf[e] = "BUTTON" -> <<"b", "u", "t", "t", "o", "n">>
      [] tagOf[e] = "A" -> <<"a">>
      [] tagOf[e] = "INPUT" -> <<"i", "n", "p", "u", "t">>
      [] tagOf[e] = "TEXTAREA" -> <<"t", "e", "x", "t", "a", "r", "e", "a">>
      [] tagOf[e] = "SELECT" -> <<"s", "e", "l", "e", "c", "t">>
      [] OTHER -> <<"d", "i", "v">>

\* the text of the <option> children of a select
RECURSIVE OptionTexts(_)
OptionTexts(opts) ==
    IF opts = <<>> THEN <<>> ELSE Head(opts).text \o OptionTexts(Tail(opts))

OwnText(e) == attrs[e].text \o OptionTexts(attrs[e].options)

\* el.textContent: the element's own text followed by its descendants'
TextContent(e) ==
    OwnText(e) \o (IF e = "e1" /\ linked["e2"] THEN OwnText("e2") ELSE <<>>)

\* `${prefix}-${rest}`
Dash(prefix, rest) == prefix \o <<"-">> \o rest

\* the fallback loop: `${tag}-${index}`, advancing index past used ids
RECURSIVE Fallback(_, _, _)
Fallback(tag, index, usedIds) ==
    IF Dash(tag, NumStr(index)) \in usedIds
    THEN Fallback(tag, index + 1, usedIds)
    ELSE Dash(tag, NumStr(index))

\* generateElementId(el, index, usedIds); <<>> is the empty string
generateElementId(el, index, usedIds) ==
    LET tag == TagName(el)
        isFormElement ==
            tagOf[el] \in {"INPUT", "TEXTAREA", "SELECT", "BUTTON"}
        byId == sanitize(attrs[el].id)
        byName == sanitize(attrs[el].name)
        byAria == sanitize(attrs[el].aria)
        byPlaceholder == sanitize(attrs[el].placeholder)
        text == Trim(TextContent(el))
        byText == sanitize(text)
        href == IF attrs[el].href = NoAttr THEN <<>> ELSE attrs[el].href
        byHref == sanitize(StripHashSlash(href))
    IN  IF isFormElement
        THEN IF attrs[el].id # <<>> /\ byId \notin usedIds THEN byId
             ELSE IF attrs[el].id # <<>> /\ Dash(tag, byId) \notin usedIds
             THEN Dash(tag, byId)
             ELSE IF attrs[el].name # <<>> /\ byName \notin usedIds
             THEN byName
             ELSE IF attrs[el].name # <<>> /\ Dash(tag, byName) \notin usedIds
             THEN Dash(tag, byName)
             ELSE IF attrs[el].aria # <<>> /\ byAria \notin usedIds
             THEN byAria
             ELSE IF attrs[el].placeholder # <<>>
                     /\ byPlaceholder \notin usedIds
             THEN byPlaceholder
             ELSE Fallback(tag, index, usedIds)
        ELSE IF attrs[el].aria # <<>> /\ byAria \notin usedIds THEN byAria
             ELSE IF text # <<>> /\ Len(text) <= MaxTextLength
                     /\ byText \notin usedIds
             THEN byText
             ELSE IF tagOf[el] = "A" /\ href # <<>> /\ href # <<"#">>
                     /\ byHref # <<>> /\ byHref \notin usedIds
             THEN byHref
             ELSE Fallback(tag, index, usedIds)

(***************************************************************************)
(* autoDiscover().                                                         *)
(***************************************************************************)
\* the elements of the document, in document order
DocOrder == SelectSeq(<<"e1", "e2", "e3">>, LAMBDA e : InDocument(e))

ROLES == <<"button", "checkbox", "textbox", "combobox", "switch">>

\* does the element match the k-th selector of autoDiscover's list
MatchesSelector(e, k) ==
    IF k = 1 THEN tagOf[e] = "BUTTON"
    ELSE IF k = 2 THEN tagOf[e] = "A" /\ attrs[e].href # NoAttr
    ELSE IF k = 3 THEN tagOf[e] = "INPUT" /\ attrs[e].type # "hidden"
    ELSE IF k = 4 THEN tagOf[e] = "TEXTAREA"
    ELSE IF k = 5 THEN tagOf[e] = "SELECT"
    ELSE attrs[e].role = ROLES[k - 5]

NumSelectors == 5 + Len(ROLES)

\* allElements: the matches of each selector in turn, in document order
RECURSIVE AllElements(_)
AllElements(k) ==
    IF k > NumSelectors THEN <<>>
    ELSE SelectSeq(DocOrder, LAMBDA e : MatchesSelector(e, k))
            \o AllElements(k + 1)

\* [...new Set(seq)]: first occurrences, in order
RECURSIVE Unique(_)
Unique(seq) ==
    IF seq = <<>> THEN <<>>
    ELSE LET front == Unique(SubSeq(seq, 1, Len(seq) - 1))
             last == seq[Len(seq)]
         IN  IF last \in Range(front) THEN front ELSE front \o <<last>>

\* uniqueElements under the mutation that keeps already-labeled elements
UniqueElements_KeepLabeled == Unique(AllElements(1))

\* uniqueElements: deduplicated, already-labeled elements filtered out
UniqueElements ==
    SelectSeq(Unique(AllElements(1)), LAMBDA e : ~HasAttr(e))

\* usedIds as seeded from the document
SeedUsedIds == {labelOf[e] : e \in QueryLabeled(Body)}

\* the forEach under the mutation that drops usedIds.add(id)
RECURSIVE AssignIds_NoAdd(_, _, _, _)
AssignIds_NoAdd(cands, k, usedIds, lab) ==
    IF k > Len(cands) THEN lab
    ELSE LET id == generateElementId(cands[k], k - 1, usedIds)
         IN  IF id # <<>>
             THEN AssignIds_NoAdd(cands, k + 1, usedIds,
                                  [lab EXCEPT ![cands[k]] = id])
             ELSE AssignIds_NoAdd(cands, k + 1, usedIds, lab)

\* the forEach over uniqueElements from its k-th element on (counter being
\* k - 1): the labels the document ends with
RECURSIVE AssignIds(_, _, _, _)
AssignIds(cands, k, usedIds, lab) ==
    IF k > Len(cands) THEN lab
    ELSE LET id == generateElementId(cands[k], k - 1, usedIds)
         IN  IF id # <<>>
             THEN AssignIds(cands, k + 1, usedIds \cup {id},
                            [lab EXCEPT ![cands[k]] = id])
             ELSE AssignIds(cands, k + 1, usedIds, lab)

\* how many autoDiscover() passes the model follows
MaxPasses == 2

\* autoDiscover(): label the candidates, then scan()
autoDiscover ==
    /\ Len(passLog) <= MaxPasses
    /\ LET lab == AssignIds(UniqueElements, 1, SeedUsedIds, labelOf)
       IN  /\ labelOf' = lab
           /\ AddMarkersIn(ScanTargetsIn(Body, config, lab), config, lab)
           /\ passLog' = (IF passLog = <<>> THEN <<labelOf>> ELSE passLog)
                            \o <<lab>>
           /\ fullScans' = IF lab = labelOf THEN CountScan(config)
                           ELSE IF config.enabled THEN 1 ELSE 0
           /\ reenabled' = IF lab = labelOf THEN reenabled ELSE FALSE
           /\ UNCHANGED <<covered, disposed, mountCycle, visibility>>
    /\ UNCHANGED <<tagOf, attrs, linked, markers, stylesInjected, config,
                   observer, observing, mutationQueue, initialized, chanVars>>
    /\ UNCHANGED <<formVars, cmdVars, encVars>>

(***************************************************************************)
(* The encoder.  A digest is the bytes encode() reads, hash[0] .. hash[4]. *)
(***************************************************************************)
DigestIndexes == 0..4
ZeroDigest == [b \in DigestIndexes |-> 0]
\* no overlay has been rendered yet
NoEncoding == [borderColor |-> -1, cellColors |-> <<>>]

RECURSIVE Pow2(_)
Pow2(n) == IF n = 0 THEN 1 ELSE 2 * Pow2(n - 1)

\* x >> n and x << n
ShiftRight(x, n) == x \div Pow2(n)
ShiftLeft(x, n) == x * Pow2(n)

\* x | y and x & y on non-negative integers
RECURSIVE BitOr(_, _)
BitOr(x, y) ==
    IF x = 0 THEN y
    ELSE IF y = 0 THEN x
    ELSE (IF x % 2 = 1 \/ y % 2 = 1 THEN 1 ELSE 0)
            + 2 * BitOr(x \div 2, y \div 2)

RECURSIVE BitAnd(_, _)
BitAnd(x, y) ==
    IF x = 0 \/ y = 0 THEN 0
    ELSE (IF x % 2 = 1 /\ y % 2 = 1 THEN 1 ELSE 0)
            + 2 * BitAnd(x \div 2, y \div 2)

\* the value pushed for cell i under the mutation that never reads the
\* following byte
CellColor_OneByte(hash, i) ==
    LET byteIndex == 1 + ((i * 3) \div 8)
        bitOffset == (i * 3) % 8
    IN  BitAnd(ShiftRight(hash[byteIndex], bitOffset), 7)

\* the value pushed for cell i
CellColor(hash, i) ==
    LET byteIndex == 1 + ((i * 3) \div 8)
        bitOffset == (i * 3) % 8
    IN  IF bitOffset <= 5
        THEN BitAnd(ShiftRight(hash[byteIndex], bitOffset), 7)
        ELSE BitAnd(BitOr(ShiftRight(hash[byteIndex], bitOffset),
                          ShiftLeft(hash[byteIndex + 1], 8 - bitOffset)), 7)

\* encode(markerId), hash being sha256(markerId)
encode(hash) ==
    [borderColor |-> BitAnd(hash[0], 7),
     cellColors |-> [n \in 1..9 |-> CellColor(hash, n - 1)]]

(***************************************************************************)
(* Initial state: a freshly constructed SigilCore over an empty page.      *)
(***************************************************************************)
InitCore ==
    /\ markers = {}
    /\ stylesInjected = FALSE
    /\ config = DefaultConfig
    /\ observer = FALSE
    /\ observing = 0
    /\ mutationQueue = {}
    /\ markedElements = {}
    /\ encoding = {}
    /\ initialized = FALSE
    /\ wsConnection = Null
    /\ wsReconnectTimer = Null
    /\ sockets = [s \in SocketIds |-> "none"]
    /\ timers = {}
    /\ attemptBit = FALSE
    /\ inflight = {}
    /\ outbox = <<>>
    /\ received = {}
    /\ dropped = {}
    /\ cmdLog = <<>>
    /\ routes = <<>>
    /\ encoded = NoEncoding
    /\ reenabled = FALSE
    /\ fullScans = 0
    /\ passLog = <<>>
    /\ covered = {}
    /\ disposed = FALSE
    /\ mountCycle = 0
    /\ visibility = "unset"

\* an element with no attribute the id generator reads and no text
\* a rectangle well inside a 100 x 100 window
DefaultLayout ==
    [rect |-> [top |-> 10, left |-> 10, bottom |-> 20, right |-> 20],
     vw |-> 100, vh |-> 100]

NoAttrs ==
    [id |-> <<>>, name |-> <<>>, aria |-> <<>>, placeholder |-> <<>>,
     text |-> <<>>, href |-> NoAttr, role |-> "", type |-> "",
     options |-> <<>>]

EmptyPage ==
    /\ tagOf = [e \in Elems |-> IF e = "e1" THEN "DIV" ELSE "INPUT"]
    /\ attrs = [e \in Elems |-> NoAttrs]
    /\ checked = [e \in Elems |-> FALSE]
    /\ values = [e \in Elems |-> <<>>]
    /\ layout = DefaultLayout
    /\ digest = ZeroDigest
    /\ linked = [e \in Elems |-> FALSE]
    /\ labelOf = [e \in Elems |-> NoAttr]

Init ==
    /\ EmptyPage
    /\ hasWebSocket \in BOOLEAN
    /\ InitCore

(***************************************************************************)
(* The page changes the document.                                          *)
(***************************************************************************)
\* parent.appendChild(e): recorded for the observer when the parent is
\* inside the observed <body> subtree
InsertElement(e) ==
    /\ ~linked[e]
    /\ linked' = [linked EXCEPT ![e] = TRUE]
    /\ mutationQueue' =
         IF observing > 0 /\ (ParentOf(e) = Body \/ InDocument(ParentOf(e)))
         THEN mutationQueue \cup {e}
         ELSE mutationQueue
    /\ reenabled' = FALSE
    /\ fullScans' = 0
    /\ UNCHANGED <<tagOf, attrs, labelOf, markers, stylesInjected, config,
                   observer, observing,
                   markedElements, encoding, initialized, chanVars>>
    /\ UNCHANGED <<passLog, covered, disposed, mountCycle, visibility>>
    /\ UNCHANGED <<formVars, cmdVars, encVars>>

\* e.remove(): the record carries only removedNodes, which the observer's
\* callback does not read
RemoveElement(e) ==
    /\ linked[e]
    /\ linked' = [linked EXCEPT ![e] = FALSE]
    /\ reenabled' = FALSE
    /\ fullScans' = 0
    /\ UNCHANGED <<tagOf, attrs, labelOf, reconVars, chanVars>>
    /\ UNCHANGED <<passLog, covered, disposed, mountCycle, visibility>>
    /\ UNCHANGED <<formVars, cmdVars, encVars>>

\* e.setAttribute('data-sigil-id', v): the observer watches childList only
SetLabel(e, v) ==
    /\ labelOf[e] # v
    /\ labelOf' = [labelOf EXCEPT ![e] = v]
    /\ reenabled' = FALSE
    /\ fullScans' = 0
    /\ UNCHANGED <<tagOf, attrs, linked, reconVars, chanVars>>
    /\ UNCHANGED <<passLog, covered, disposed, mountCycle, visibility>>
    /\ UNCHANGED <<formVars, cmdVars, encVars>>

\* e.removeAttribute('data-sigil-id')
RemoveLabel(e) ==
    /\ labelOf[e] # NoAttr
    /\ labelOf' = [labelOf EXCEPT ![e] = NoAttr]
    /\ reenabled' = FALSE
    /\ fullScans' = 0
    /\ UNCHANGED <<tagOf, attrs, linked, reconVars, chanVars>>
    /\ UNCHANGED <<passLog, covered, disposed, mountCycle, visibility>>
    /\ UNCHANGED <<formVars, cmdVars, encVars>>

(***************************************************************************)
(* The public API.                                                         *)
(***************************************************************************)
\* init(options), the page's URL carrying ?sigilWsPort=urlWsPort or not
init(options, urlWsPort) ==
    LET cfg == Merge(config, WithUrlPort(options, urlWsPort))
    IN  /\ config' = cfg
        /\ reenabled' = FALSE
        /\ IF ~cfg.enabled
           THEN UNCHANGED <<pageVars, markers, stylesInjected, observer,
                            observing,
                            mutationQueue, markedElements, encoding,
                            initialized, chanVars, fullScans>>
           ELSE /\ stylesInjected' = TRUE
                /\ AddMarkers(ScanTargets(Body, cfg), cfg)
                /\ fullScans' = CountScan(cfg)
                /\ startObserver
                /\ connectWebSocket
                /\ initialized' = TRUE
                /\ UNCHANGED <<pageVars, markers, mutationQueue,
                               hasWebSocket, wsReconnectTimer, timers>>
        /\ disposed' = (disposed /\ ~cfg.enabled)
        /\ mountCycle' = IF ~cfg.enabled THEN 0
                         ELSE IF mountCycle = 0 THEN 1
                         ELSE IF mountCycle = 2 THEN 3
                         ELSE mountCycle
        /\ UNCHANGED <<passLog, covered, visibility>>
        /\ UNCHANGED <<formVars, cmdVars, encVars>>

\* configure under the mutation that reconnects when it enables
configure_Reconnecting(options) ==
    LET cfg == Merge(config, options)
    IN  /\ config' = cfg
        /\ IF ~cfg.enabled
           THEN /\ stopObserver
                /\ mutationQueue' = {}
                /\ markers' = RemainingMarkers
                /\ reenabled' = FALSE
                /\ UNCHANGED <<markedElements, encoding, fullScans, sockets,
                               wsConnection, attemptBit>>
           ELSE /\ AddMarkers(ScanTargets(Body, cfg), cfg)
                /\ fullScans' = CountScan(cfg)
                /\ startObserver
                /\ reenabled' = ~config.enabled
                /\ connectWebSocket
                /\ UNCHANGED <<markers, mutationQueue>>
        /\ UNCHANGED <<pageVars, stylesInjected, initialized, hasWebSocket,
                       wsReconnectTimer, timers>>
        /\ disposed' = (disposed /\ ~cfg.enabled)
        /\ mountCycle' = 0
        /\ UNCHANGED <<passLog, covered, visibility>>
        /\ UNCHANGED <<formVars, cmdVars, encVars>>

\* configure(options)
configure(options) ==
    LET cfg == Merge(config, options)
    IN  /\ config' = cfg
        /\ IF ~cfg.enabled
           THEN /\ stopObserver
                /\ mutationQueue' = {}
                /\ markers' = RemainingMarkers
                /\ reenabled' = FALSE
                /\ UNCHANGED <<markedElements, encoding, fullScans>>
           ELSE /\ AddMarkers(ScanTargets(Body, cfg), cfg)
                /\ fullScans' = CountScan(cfg)
                /\ startObserver
                /\ reenabled' = ~config.enabled
                /\ UNCHANGED <<markers, mutationQueue>>
        /\ UNCHANGED <<pageVars, stylesInjected, initialized, chanVars>>
        /\ disposed' = (disposed /\ ~cfg.enabled)
        /\ mountCycle' = 0
        /\ UNCHANGED <<passLog, covered, visibility>>
        /\ UNCHANGED <<formVars, cmdVars, encVars>>

\* scan(root), root = Body standing for the default `document`
scan(root) ==
    /\ config.enabled
    /\ AddMarkers(ScanTargets(root, config), config)
    /\ fullScans' = IF root = Body THEN CountScan(config) ELSE fullScans
    /\ UNCHANGED <<pageVars, markers, stylesInjected, config, observer,
                   observing,
                   mutationQueue, initialized, chanVars, reenabled>>
    /\ UNCHANGED <<passLog, covered, disposed, mountCycle, visibility>>
    /\ UNCHANGED <<formVars, cmdVars, encVars>>

\* dispose()
dispose ==
    /\ stopObserver
    /\ mutationQueue' = {}
    /\ sockets' =
         LET closed == [s \in SocketIds |->
                          IF s = wsConnection
                             /\ sockets[s] \in {"connecting", "open"}
                          THEN "closing" ELSE sockets[s]]
         IN  Collect(closed, Null)
    /\ wsConnection' = Null
    /\ ClearReconnectTimer
    /\ markers' = RemainingMarkers
    /\ initialized' = FALSE
    /\ reenabled' = FALSE
    /\ UNCHANGED <<pageVars, stylesInjected, config, markedElements,
                   encoding, hasWebSocket, attemptBit, fullScans>>
    /\ disposed' = TRUE
    /\ mountCycle' = IF mountCycle \in {1, 3} THEN 2 ELSE 0
    /\ UNCHANGED <<passLog, covered, visibility>>
    /\ UNCHANGED <<formVars, cmdVars, encVars>>

(***************************************************************************)
(* Callbacks the host runs.                                                *)
(***************************************************************************)
\* the MutationObserver callback, given every record queued so far
DeliverMutations ==
    /\ observing > 0
    /\ mutationQueue # {}
    /\ AddMarkers(BatchTargets(mutationQueue, config), config)
    /\ mutationQueue' = {}
    /\ covered' =
         IF config.enabled
         THEN covered \cup {e \in BatchTargets(mutationQueue, config) :
                               /\ labelOf[e] \notin {NoAttr, <<>>}
                               /\ MarkersOf(e) = {}}
         ELSE covered
    /\ UNCHANGED <<pageVars, markers, stylesInjected, config, observer,
                   observing, initialized, chanVars, reenabled, fullScans,
                   passLog, disposed, mountCycle, visibility>>
    /\ UNCHANGED <<formVars, cmdVars, encVars>>

\* the rest of addMarker, resumed when the digest of p.markerId is ready.
\* The marker node it appends is itself recorded for the observer, whose
\* callback finds no data-sigil-id on it or below it; that record is left out.
EncodeComplete(p) ==
    /\ p \in encoding
    /\ Cardinality(MarkersOf(p.el)) < MaxMarkersPerHost
    /\ markers' = markers \cup
          {[host |-> p.el, nth |-> Cardinality(MarkersOf(p.el)) + 1,
            for |-> p.markerId, opacity |-> config.opacity,
            detached |-> ~CanHaveChildren(p.el)]}
    /\ encoding' = encoding \ {p}
    /\ encoded' = encode(digest)
    /\ covered' = covered \ {p.el}
    /\ UNCHANGED <<pageVars, stylesInjected, config, observer, observing,
                   mutationQueue, markedElements, initialized, chanVars,
                   reenabled, fullScans, passLog, disposed, mountCycle,
                   visibility>>
    /\ UNCHANGED <<formVars, cmdVars, digest>>

\* a socket reaches OPEN and its onopen handler runs
SocketOpen(s) ==
    /\ sockets[s] = "connecting"
    /\ sockets' = [sockets EXCEPT ![s] = "open"]
    /\ OnOpenHandler
    /\ UNCHANGED <<pageVars, reconVars, hasWebSocket, wsConnection, attemptBit,
                   histVars>>
    /\ UNCHANGED <<formVars, cmdVars, encVars>>

\* a socket reaches CLOSED (the attempt failed, the peer went away, or
\* close() completed) and its onclose handler runs
SocketClose(s) ==
    /\ sockets[s] \in {"connecting", "open", "closing"}
    /\ sockets' = [sockets EXCEPT
                     ![s] = IF s = wsConnection THEN "closed" ELSE "none"]
    /\ OnCloseHandler
    /\ UNCHANGED <<pageVars, reconVars, hasWebSocket, wsConnection, attemptBit,
                   histVars>>
    /\ routes' = [c \in DOMAIN routes |->
                    IF routes[c] = s THEN Null ELSE routes[c]]
    /\ UNCHANGED <<formVars, inflight, outbox, received, dropped, cmdLog,
                   encVars>>

\* one firing of a live reconnect interval: () => this.connectWebSocket()
ReconnectTick(t) ==
    /\ t \in timers
    /\ connectWebSocket
    /\ UNCHANGED <<pageVars, reconVars, hasWebSocket, wsReconnectTimer, timers,
                   histVars>>
    /\ UNCHANGED <<formVars, cmdVars, encVars>>

(***************************************************************************)
(* Commands.  A message is held in parsed form: its verb, the id after the *)
(* verb and, for select, the option after the second colon.                *)
(***************************************************************************)
\* the null a query returns when nothing matches
NoElement == "<none>"

\* document.querySelector(`[data-sigil-id="${markerId}"]`)
QueryById(markerId) ==
    LET found == SelectSeq(DocOrder, LAMBDA e : labelOf[e] = markerId)
    IN  IF found = <<>> THEN NoElement ELSE Head(found)

\* element.querySelector(selector) || element, matching being the elements
\* the selector matches
DescendantOr(element, matching) ==
    LET found == SelectSeq(DocOrder,
                           LAMBDA e : IsDescendant(e, element)
                                      /\ e \in matching)
    IN  IF found = <<>> THEN element ELSE Head(found)

IsCheckbox(e) == tagOf[e] = "INPUT" /\ attrs[e].type = "checkbox"
\* 'input[type="checkbox"]', 'select' and 'input, textarea, select'
Checkboxes == {e \in Elems : IsCheckbox(e)}
Selects == {e \in Elems : tagOf[e] = "SELECT"}
FormControls == {e \in Elems : tagOf[e] \in {"INPUT", "TEXTAREA", "SELECT"}}
\* '[role="option"], .dropdown-item, li' (no element of the pool has a class)
IsOptionLike(e) == attrs[e].role = "option" \/ tagOf[e] = "LI"

\* el.click(): a checkbox toggles, the page's other listeners are not modelled
Click(e, chk) == IF IsCheckbox(e) THEN [chk EXCEPT ![e] = ~chk[e]] ELSE chk

\* show() and hide(): the opacity of every overlay found in the document
SetOpacity(v) ==
    markers' = {IF m \in QueryMarkers THEN [m EXCEPT !.opacity = v] ELSE m :
                    m \in markers}

show == SetOpacity(1)
hide == SetOpacity(0)

\* rect.bottom + 16
MarkerSize == 16

getDirection(rect, vw, vh) ==
    LET vertical == IF rect.bottom < 0 THEN "up"
                    ELSE IF rect.bottom + MarkerSize > vh THEN "down"
                    ELSE ""
        dir == IF rect.right < 0
               THEN (IF vertical = "up" THEN "up-left"
                     ELSE IF vertical = "down" THEN "down-left"
                     ELSE "left")
               ELSE IF rect.left > vw
               THEN (IF vertical = "up" THEN "up-right"
                     ELSE IF vertical = "down" THEN "down-right"
                     ELSE "right")
               ELSE vertical
    IN  IF dir = "" THEN "down" ELSE dir

\* searchForMarker under the mutation that wants the top edge inside too
searchForMarker_TopInside(markerId, rect, vw, vh) ==
    LET element == QueryById(markerId)
        markerBottom == rect.bottom + MarkerSize
        inViewport == /\ rect.top > 0
                      /\ markerBottom < vh
                      /\ rect.left < vw
                      /\ rect.right > 0
    IN  IF element = NoElement
        THEN [found |-> FALSE, visible |-> FALSE, markerId |-> markerId]
        ELSE [found |-> TRUE, visible |-> inViewport, markerId |-> markerId,
              direction |-> IF inViewport THEN "null"
                            ELSE getDirection(rect, vw, vh),
              offsetX |-> 0, offsetY |-> 0]

\* rect is element.getBoundingClientRect(), vw and vh the window's inner size;
\* "null" stands for the null direction
searchForMarker(markerId, rect, vw, vh) ==
    LET element == QueryById(markerId)
        markerBottom == rect.bottom + MarkerSize
        inViewport == /\ rect.bottom > 0
                      /\ markerBottom < vh
                      /\ rect.left < vw
                      /\ rect.right > 0
    IN  IF element = NoElement
        THEN [found |-> FALSE, visible |-> FALSE, markerId |-> markerId]
        ELSE [found |-> TRUE, visible |-> inViewport, markerId |-> markerId,
              direction |-> IF inViewport THEN "null"
                            ELSE getDirection(rect, vw, vh),
              offsetX |-> 0, offsetY |-> 0]

readTextContent(markerId) ==
    LET element == QueryById(markerId)
    IN  IF element = NoElement
        THEN [success |-> FALSE, value |-> <<>>, error |-> "Element not found"]
        ELSE [success |-> TRUE, value |-> Trim(TextContent(element))]

readInputValue(markerId) ==
    LET element == QueryById(markerId)
        input == DescendantOr(element, FormControls)
    IN  IF element = NoElement
        THEN [success |-> FALSE, value |-> <<>>, error |-> "Element not found"]
        ELSE [success |-> TRUE, value |-> values[input]]

\* what sendResult does with the result of a command that socket `from`
\* delivered (Null once that socket has closed): sent on that socket, sent
\* on another one, or not sent while that socket is or is not still open
Fate(from) ==
    IF IsOpen(wsConnection)
    THEN IF wsConnection = from THEN "same" ELSE "other"
    ELSE IF IsOpen(from) THEN "droppedOpen" ELSE "droppedClosed"

\* sendResult(result) without the readyState test
sendResult_Unchecked(c, result) ==
    /\ outbox' = Append(outbox, [cmd |-> c, result |-> result])
    /\ UNCHANGED dropped

\* sendResult(result), for the result of command c
sendResult(c, result) ==
    IF IsOpen(wsConnection)
    THEN /\ outbox' = Append(outbox, [cmd |-> c, result |-> result])
         /\ UNCHANGED dropped
    ELSE /\ dropped' = dropped \cup {c}
         /\ UNCHANGED outbox

\* selectOption(markerId, optionValue) and the .then that sends its result;
\* a select that goes the custom-dropdown way leaves a timeout in flight
selectOption(c, markerId, optionValue) ==
    LET element == QueryById(markerId)
        select == DescendantOr(element, Selects)
        option == SelectSeq(attrs[select].options,
                            LAMBDA o : \/ o.value = optionValue
                                       \/ Trim(o.text) = optionValue)
    IN  IF element = NoElement
        THEN /\ sendResult(c, [success |-> FALSE,
                               error |-> "Element not found"])
             /\ UNCHANGED <<formVars, inflight>>
        ELSE IF tagOf[select] = "SELECT" /\ option # <<>>
        THEN /\ values' = [values EXCEPT ![select] = Head(option).value]
             /\ sendResult(c, [success |-> TRUE])
             /\ UNCHANGED <<checked, inflight>>
        ELSE /\ checked' = Click(element, checked)
             /\ inflight' = inflight \cup
                               {[cmd |-> c, optionValue |-> optionValue]}
             /\ UNCHANGED <<values, outbox, dropped>>

\* setCheckboxState under the mutation that clicks without comparing
setCheckboxState_Always(c, markerId, shouldCheck) ==
    LET element == QueryById(markerId)
        checkbox == DescendantOr(element, Checkboxes)
    IN  IF element = NoElement
        THEN /\ sendResult(c, [success |-> FALSE,
                               error |-> "Element not found"])
             /\ UNCHANGED checked
        ELSE /\ checked' = Click(checkbox, checked)
             /\ sendResult(c, [success |-> TRUE])

setCheckboxState(c, markerId, shouldCheck) ==
    LET element == QueryById(markerId)
        checkbox == DescendantOr(element, Checkboxes)
    IN  IF element = NoElement
        THEN /\ sendResult(c, [success |-> FALSE,
                               error |-> "Element not found"])
             /\ UNCHANGED checked
        ELSE /\ checked' = IF IsCheckbox(checkbox)
                              /\ checked[checkbox] # shouldCheck
                           THEN Click(checkbox, checked)
                           ELSE checked
             /\ sendResult(c, [success |-> TRUE])

\* handleWebSocketMessage(data), for the c-th command of the behaviour
handleWebSocketMessage(c, data, rect, vw, vh) ==
    IF data.verb = "show"
    THEN show /\ UNCHANGED <<formVars, inflight, outbox, dropped>>
    ELSE IF data.verb = "hide"
    THEN hide /\ UNCHANGED <<formVars, inflight, outbox, dropped>>
    ELSE IF data.verb = "search"
    THEN /\ sendResult(c, searchForMarker(data.id, rect, vw, vh))
         /\ UNCHANGED <<markers, formVars, inflight>>
    ELSE IF data.verb = "scrollto"
    THEN UNCHANGED <<markers, formVars, inflight, outbox, dropped>>
    ELSE IF data.verb = "read:text"
    THEN /\ sendResult(c, readTextContent(data.id))
         /\ UNCHANGED <<markers, formVars, inflight>>
    ELSE IF data.verb = "read:value"
    THEN /\ sendResult(c, readInputValue(data.id))
         /\ UNCHANGED <<markers, formVars, inflight>>
    ELSE IF data.verb = "select"
    THEN /\ selectOption(c, data.id, data.option)
         /\ UNCHANGED markers
    ELSE IF data.verb = "check"
    THEN /\ setCheckboxState(c, data.id, TRUE)
         /\ UNCHANGED <<markers, values, inflight>>
    ELSE IF data.verb = "uncheck"
    THEN /\ setCheckboxState(c, data.id, FALSE)
         /\ UNCHANGED <<markers, values, inflight>>
    ELSE UNCHANGED <<markers, formVars, inflight, outbox, dropped>>

\* the commands a behaviour delivers, at most
MaxCmds == 2

\* onmessage of socket s: any socket that is OPEN delivers, whether or not
\* wsConnection still refers to it
SocketMessage(s, data, rect, vw, vh) ==
    /\ sockets[s] = "open"
    /\ Cardinality(received) < MaxCmds
    /\ LET c == Cardinality(received) + 1
       IN  /\ received' = received \cup {c}
           /\ handleWebSocketMessage(c, data, rect, vw, vh)
           /\ cmdLog' = Append(cmdLog,
                  [data |-> data,
                   toggled |-> {e \in Elems : checked'[e] # checked[e]}])
           /\ routes' = IF inflight' # inflight THEN routes @@ (c :> s)
                        ELSE routes
    /\ visibility' = IF data.verb = "show" THEN "shown"
                     ELSE IF data.verb = "hide" THEN "hidden"
                     ELSE visibility
    /\ UNCHANGED <<pageVars, layout, stylesInjected, config, observer,
                   observing,
                   mutationQueue, markedElements, encoding, initialized,
                   chanVars, encVars, reenabled, fullScans, passLog, covered,
                   disposed, mountCycle>>

\* the 200 ms timeout of a custom-dropdown select fires
SelectTimeout(p) ==
    /\ p \in inflight
    /\ LET options == SelectSeq(DocOrder,
                          LAMBDA e : /\ IsOptionLike(e)
                                     /\ Trim(TextContent(e)) = p.optionValue)
       IN  IF options # <<>>
           THEN /\ checked' = Click(Head(options), checked)
                /\ sendResult(p.cmd, [success |-> TRUE])
           ELSE /\ UNCHANGED checked
                /\ sendResult(p.cmd, [success |-> FALSE,
                                      error |-> "Option not found"])
    /\ inflight' = inflight \ {p}
    /\ routes' = [c \in DOMAIN routes \ {p.cmd} |-> routes[c]]
    /\ UNCHANGED <<pageVars, values, layout, reconVars, chanVars, received,
                   cmdLog, encVars, histVars>>

(***************************************************************************)
(* Specifications.                                                         *)
(***************************************************************************)
LabelValues == {<<>>, <<"a">>}
LifecycleOptions == {NoOptions, [enabled |-> TRUE], [enabled |-> FALSE]}

PageStep ==
    \E e \in PageElems :
        \/ InsertElement(e)
        \/ RemoveElement(e)
        \/ \E v \in LabelValues : SetLabel(e, v)
        \/ RemoveLabel(e)

ReconcileStep ==
    \/ \E root \in {Body} \cup PageElems : scan(root)
    \/ DeliverMutations
    \/ \E p \in encoding : EncodeComplete(p)

LifecycleStep ==
    \/ \E o \in LifecycleOptions : init(o, Null)
    \/ \E o \in LifecycleOptions : configure(o)
    \/ dispose

ChannelStep ==
    \/ \E s \in SocketIds : SocketOpen(s)
    \/ \E s \in SocketIds : SocketClose(s)
    \/ \E t \in TimerIds : ReconnectTick(t)

Next == PageStep \/ ReconcileStep \/ LifecycleStep \/ ChannelStep

Spec == Init /\ [][Next]_vars

\* the reconciler, on a host without WebSocket (the channel stays idle)
InitReconcile == EmptyPage /\ hasWebSocket = FALSE /\ InitCore
NextReconcile == PageStep \/ ReconcileStep \/ LifecycleStep
SpecReconcile == InitReconcile /\ [][NextReconcile]_vars

\* the command channel, over a page that stays empty
InitChannel == EmptyPage /\ hasWebSocket = TRUE /\ InitCore
NextChannel == LifecycleStep \/ ChannelStep
SpecChannel == InitChannel /\ [][NextChannel]_vars

\* scans, mutation batches and encodings only: nothing disables or disposes
InitOptions == {NoOptions, [enabled |-> TRUE]}
NextScan ==
    \/ PageStep
    \/ ReconcileStep
    \/ \E o \in InitOptions : init(o, Null)
SpecScan == InitReconcile /\ [][NextScan]_vars

(***************************************************************************)
(* Commands over a fixed page: a custom dropdown "a" holding one option    *)
(* "x", and a checkbox "c".  Sigil is initialised, sockets open and close, *)
(* the reconnect loop ticks, and search and select commands arrive.        *)
(***************************************************************************)
CommandPage ==
    /\ tagOf = [e \in Elems |-> IF e = "e1" THEN "DIV"
                                ELSE IF e = "e2" THEN "LI" ELSE "INPUT"]
    /\ attrs = [e \in Elems |->
                  IF e = "e2" THEN [NoAttrs EXCEPT !.text = <<" ", "x">>]
                  ELSE IF e = "e3" THEN [NoAttrs EXCEPT !.type = "checkbox"]
                  ELSE NoAttrs]
    /\ checked = [e \in Elems |-> FALSE]
    /\ values = [e \in Elems |-> IF e = "e3" THEN <<"o", "n">> ELSE <<>>]
    /\ layout = DefaultLayout
    /\ digest = ZeroDigest
    /\ linked = [e \in Elems |-> TRUE]
    /\ labelOf = [e \in Elems |-> IF e = "e1" THEN <<"a">>
                                  ELSE IF e = "e3" THEN <<"c">> ELSE NoAttr]

Commands ==
    { [verb |-> "search", id |-> <<"a">>],
      [verb |-> "select", id |-> <<"a">>, option |-> <<"x">>] }

InViewRect == [top |-> 10, left |-> 10, bottom |-> 20, right |-> 20]
CommandViewport == [w |-> 100, h |-> 100]

CommandStep ==
    \/ \E s \in SocketIds, data \in Commands :
          SocketMessage(s, data, InViewRect, CommandViewport.w,
                        CommandViewport.h)
    \/ \E p \in inflight : SelectTimeout(p)

InitCommands == CommandPage /\ hasWebSocket = TRUE /\ InitCore
NextCommands ==
    \/ init(NoOptions, Null)
    \/ ChannelStep
    \/ CommandStep
SpecCommands == InitCommands /\ [][NextCommands]_vars

(***************************************************************************)
(* Discovery over a family of three-element documents.                     *)
(***************************************************************************)
LongText == [i \in 1..(MaxTextLength + 1) |-> "x"]

ElementKinds ==
    { [tag |-> "BUTTON", attrs |-> [NoAttrs EXCEPT !.id = <<"O", "k">>]],
      [tag |-> "BUTTON", attrs |-> [NoAttrs EXCEPT !.name = <<"o", "k">>]],
      [tag |-> "BUTTON", attrs |-> NoAttrs],
      [tag |-> "INPUT",
       attrs |-> [NoAttrs EXCEPT !.aria = <<"O", "K">>,
                                 !.placeholder = <<"o", " ", " ", "k">>]],
      [tag |-> "INPUT",
       attrs |-> [NoAttrs EXCEPT !.id = <<"o", "k">>, !.type = "hidden"]],
      [tag |-> "INPUT", attrs |-> [NoAttrs EXCEPT !.id = <<"!", "!">>]],
      [tag |-> "A",
       attrs |-> [NoAttrs EXCEPT !.href = <<"#", "/", "o", "k">>,
                                 !.text = <<" ", "O", "k", " ">>]],
      [tag |-> "A",
       attrs |-> [NoAttrs EXCEPT !.href = <<"#">>, !.text = <<"!", "!">>]],
      [tag |-> "DIV",
       attrs |-> [NoAttrs EXCEPT !.role = "button", !.text = LongText]],
      [tag |-> "DIV", attrs |-> [NoAttrs EXCEPT !.text = <<"o", "k">>]] }

PriorLabels ==
    { NoAttr, <<>>, <<"o", "k">>,
      <<"b", "u", "t", "t", "o", "n", "-", "o", "k">>,
      <<"b", "u", "t", "t", "o", "n", "-", "0">> }

InitDiscover ==
    /\ \E kind \in [Elems -> ElementKinds] :
          /\ tagOf = [e \in Elems |-> kind[e].tag]
          /\ attrs = [e \in Elems |-> kind[e].attrs]
    /\ linked = [e \in Elems |-> TRUE]
    /\ checked = [e \in Elems |-> FALSE]
    /\ values = [e \in Elems |-> <<>>]
    /\ layout = DefaultLayout
    /\ digest = ZeroDigest
    /\ labelOf \in {lab \in [Elems -> PriorLabels] : lab["e3"] = NoAttr}
    /\ hasWebSocket = FALSE
    /\ InitCore

NextDiscover == autoDiscover
SpecDiscover == InitDiscover /\ [][NextDiscover]_vars

\* C7: a second autoDiscover() pass with no tree change in between assigns
\* no label and changes none, and no pass changes a label that was there
\* before it.
C7_DiscoveryIdempotent ==
    /\ \A i \in 3..Len(passLog) : passLog[i] = passLog[2]
    /\ \A i \in 2..Len(passLog) : \A e \in Elems :
          passLog[i - 1][e] # NoAttr => passLog[i][e] = passLog[i - 1][e]

\* C7 witness: two passes have run, the first labeled at least two elements
\* and left a candidate without a label.
C7_Witness ==
    /\ Len(passLog) = 3
    /\ Cardinality({e \in Elems : passLog[1][e] = NoAttr
                                    /\ passLog[2][e] # NoAttr}) >= 2
    /\ UniqueElements # <<>>

(***************************************************************************)
(* Properties of the reconciler.                                           *)
(***************************************************************************)
\* an element the label attribute marks for an overlay: attached to the
\* document and bearing a non-empty data-sigil-id
Labeled(e) == InDocument(e) /\ labelOf[e] \notin {NoAttr, <<>>}

Overlays(e) == Cardinality(MarkersOf(e))
Pending(e) == Cardinality({p \in encoding : p.el = e})

\* C1: configure({enabled:false}) followed by configure({enabled:true})
\* restores the overlays: once the re-enabling configure() has run and no
\* encoding is pending, every labeled element has exactly one overlay.
C1_ReenableRestoresOverlays ==
    (reenabled /\ encoding = {}) =>
        \A e \in Elems : Labeled(e) => Overlays(e) = 1

\* C5: under scans, mutation batches and encoding completions no element
\* ever has more than one overlay, a render request for an element already
\* in the membership set creates nothing (an element has one overlay or one
\* pending render exactly when it is in the set), and once the whole document
\* has been scanned and the encodings are done every labeled element has
\* exactly one overlay.
C5_OneOverlayPerElement ==
    /\ \A e \in Elems :
          Overlays(e) + Pending(e) = IF e \in markedElements THEN 1 ELSE 0
    /\ (config.enabled /\ fullScans >= 1 /\ encoding = {}) =>
          \A e \in Elems : Labeled(e) => Overlays(e) = 1

\* C5 witness: the document was scanned twice, the encodings are done, and
\* an attached and a detached overlay exist, one per labeled element.
C5_Witness ==
    /\ fullScans = 2
    /\ encoding = {}
    /\ \A e \in PageElems : Labeled(e) /\ Overlays(e) = 1
    /\ \E m \in markers : m.detached
    /\ \E m \in markers : ~m.detached

\* C6: in every quiescent state while enabled and observing, every labeled
\* attached element has exactly one overlay and no overlay exists for an
\* element lacking a label.
C6_DataModelInvariant ==
    (config.enabled /\ observer /\ encoding = {} /\ mutationQueue = {}) =>
        /\ \A e \in Elems : Labeled(e) => Overlays(e) = 1
        /\ \A m \in markers : HasAttr(m.host)

(***************************************************************************)
(* Properties of the command channel.                                      *)
(***************************************************************************)
\* the reconnect interval fires for as long as it is not cleared
SpecChannelFair ==
    SpecChannel /\ WF_vars(\E t \in TimerIds : ReconnectTick(t))

OpenSockets == {s \in SocketIds : sockets[s] = "open"}

\* C2: from dispose() until the next init() no connection is live, no
\* reconnect loop is running and no connection attempt has been made.
C2_DisposedStaysQuiet ==
    ~initialized =>
        /\ wsReconnectTimer = Null
        /\ timers = {}
        /\ wsConnection = Null
        /\ OpenSockets = {}

\* C3: at most one socket is open at any time.
C3_AtMostOneLiveConnection == Cardinality(OpenSockets) <= 1

\* C4: at most one reconnect interval is live at any time, and it is the
\* one this.wsReconnectTimer holds.
C4_AtMostOneReconnectLoop ==
    /\ Cardinality(timers) <= 1
    /\ timers = IF wsReconnectTimer = Null THEN {} ELSE {wsReconnectTimer}

\* C4 witness: the loop runs while a superseded socket is open and a newer
\* attempt is in progress.
C4_Witness ==
    /\ Cardinality(timers) = 1
    /\ wsConnection # Null
    /\ sockets[wsConnection] = "connecting"
    /\ \E s \in SocketIds : s # wsConnection /\ sockets[s] = "open"

\* C9: while the current connection is open no reconnect loop is running.
C9_NoLoopWhileOpen == IsOpen(wsConnection) => wsReconnectTimer = Null

SentCmds == {outbox[i].cmd : i \in DOMAIN outbox}

\* C8: a result is sent only in the step that computes it (the step that
\* receives its command, or the step in which its select timeout fires),
\* and only if wsConnection refers to a socket that is open in that step;
\* a result that was dropped is never sent, and no result is sent twice.
C8_SentWhenComputedOnOpenOrNever ==
    [][outbox' # outbox =>
         /\ Len(outbox') = Len(outbox) + 1
         /\ SubSeq(outbox', 1, Len(outbox)) = outbox
         /\ LET m == outbox'[Len(outbox')]
            IN  /\ IsOpen(wsConnection)
                /\ sockets'[wsConnection] = "open"
                /\ m.cmd \notin dropped
                /\ m.cmd \notin SentCmds
                /\ \/ m.cmd \notin received
                   \/ \E p \in inflight \ inflight' : p.cmd = m.cmd]_vars

\* a result was dropped while disconnected, the connection is open again, a
\* later result went out, and the dropped one did not
C8_Witness ==
    /\ IsOpen(wsConnection)
    /\ \E c \in dropped, i \in DOMAIN outbox :
          /\ outbox[i].cmd > c
          /\ c \notin SentCmds

(***************************************************************************)
(* configure() and the command channel.                                    *)
(***************************************************************************)
\* the partial configurations configure() is given: enabling, disabling,
\* changing the port
ConfigureOptions ==
    LifecycleOptions \cup {[wsPort |-> 5051], [enabled |-> TRUE, wsPort |-> 5051]}

NextConfigure ==
    \/ \E o \in LifecycleOptions : init(o, Null)
    \/ \E o \in ConfigureOptions : configure(o)
    \/ dispose
    \/ ChannelStep
SpecConfigure == InitChannel /\ [][NextConfigure]_vars

\* C11: a configure() step, whatever the partial configuration, leaves the
\* connection, every socket, the reconnect timer and the live intervals as
\* they were.
C11_ConfigureLeavesChannel ==
    [][(\E o \in ConfigureOptions : configure(o)) =>
          UNCHANGED <<wsConnection, sockets, wsReconnectTimer, timers>>]_vars

\* C11 witness: configure() has changed the port and disabled while the
\* connection is open.
C11_Witness ==
    /\ config.wsPort # DefaultConfig.wsPort
    /\ ~config.enabled
    /\ IsOpen(wsConnection)

(***************************************************************************)
(* check and uncheck, over pages that hold a checkbox "c" and a container  *)
(* "a" whose child is a checkbox or a text input.                          *)
(***************************************************************************)
CheckPage ==
    /\ tagOf = [e \in Elems |-> IF e = "e1" THEN "DIV" ELSE "INPUT"]
    /\ \E childType \in {"checkbox", "text"} :
          attrs = [e \in Elems |->
                     IF e = "e2" THEN [NoAttrs EXCEPT !.type = childType]
                     ELSE IF e = "e3" THEN [NoAttrs EXCEPT !.type = "checkbox"]
                     ELSE NoAttrs]
    /\ checked \in [Elems -> BOOLEAN]
    /\ checked["e1"] = FALSE
    /\ IsCheckbox("e2") \/ checked["e2"] = FALSE
    /\ values = [e \in Elems |-> <<>>]
    /\ layout = DefaultLayout
    /\ digest = ZeroDigest
    /\ linked = [e \in Elems |-> TRUE]
    /\ labelOf = [e \in Elems |-> IF e = "e1" THEN <<"a">>
                                  ELSE IF e = "e3" THEN <<"c">> ELSE NoAttr]

CheckCommands ==
    [verb : {"check", "uncheck"}, id : {<<"a">>, <<"c">>, <<"g">>}]

InitCheck == CheckPage /\ hasWebSocket = TRUE /\ InitCore
NextCheck ==
    \/ init(NoOptions, Null)
    \/ \E s \in SocketIds : SocketOpen(s)
    \/ \E s \in SocketIds, data \in CheckCommands :
          SocketMessage(s, data, InViewRect, CommandViewport.w,
                        CommandViewport.h)
SpecCheck == InitCheck /\ [][NextCheck]_vars

\* the checkboxes toggled by the commands i..j of the log, counted per command
RECURSIVE TogglesBetween(_, _)
TogglesBetween(i, j) ==
    IF i > j THEN 0
    ELSE Cardinality(cmdLog[i].toggled) + TogglesBetween(i + 1, j)

\* C12: a check/uncheck step leaves every checked state alone when no
\* element resolves, when the resolved element is no checkbox or when the
\* checkbox already has the requested state, and otherwise flips exactly the
\* resolved checkbox, which then has the requested state; a result that is
\* sent reports failure exactly when no element resolved; and any run of
\* identical commands toggles at most once.
C12_CheckTogglesOnlyOnDifference ==
    /\ [][\A s \in SocketIds, data \in CheckCommands :
            SocketMessage(s, data, InViewRect, CommandViewport.w,
                          CommandViewport.h) =>
              LET element == QueryById(data.id)
                  checkbox == DescendantOr(element, Checkboxes)
                  want == (data.verb = "check")
              IN  /\ checked' =
                       IF element # NoElement /\ IsCheckbox(checkbox)
                          /\ checked[checkbox] # want
                       THEN [checked EXCEPT ![checkbox] = want]
                       ELSE checked
                  /\ outbox' # outbox =>
                       /\ outbox'[Len(outbox')].result.success
                             = (element # NoElement)
                       /\ element # NoElement =>
                             outbox'[Len(outbox')].result = [success |-> TRUE]
         ]_vars
    /\ [](\A i \in DOMAIN cmdLog : \A j \in DOMAIN cmdLog :
             (i <= j /\ \A k \in i..j : cmdLog[k].data = cmdLog[i].data)
                => TogglesBetween(i, j) <= 1)

\* C12 witness: the same check command came twice for the container whose
\* child checkbox was unchecked; the first toggled it, the second did not,
\* and both results went out.
C12_Witness ==
    /\ Len(cmdLog) >= 2
    /\ cmdLog[1].data = [verb |-> "check", id |-> <<"a">>]
    /\ cmdLog[2].data = cmdLog[1].data
    /\ cmdLog[1].toggled = {"e2"}
    /\ cmdLog[2].toggled = {}
    /\ checked["e2"]
    /\ Len(outbox) = 2

(***************************************************************************)
(* search over every rectangle and window size within the bounds.          *)
(***************************************************************************)
\* the widest and the highest window
MaxWidth == 2
MaxHeight == 20

\* every non-empty rectangle with integer edges from one unit outside the
\* largest window on, in the two highest windows
Layouts ==
    { l \in [rect : [top : -1..(MaxHeight + 1), bottom : -1..(MaxHeight + 1),
                     left : -1..(MaxWidth + 1), right : -1..(MaxWidth + 1)],
             vw : {MaxWidth}, vh : (MaxHeight - 1)..MaxHeight] :
        l.rect.top < l.rect.bottom /\ l.rect.left < l.rect.right }

SearchPage ==
    /\ tagOf = [e \in Elems |-> "DIV"]
    /\ attrs = [e \in Elems |-> NoAttrs]
    /\ checked = [e \in Elems |-> FALSE]
    /\ values = [e \in Elems |-> <<>>]
    /\ layout \in Layouts
    /\ digest = ZeroDigest
    /\ linked = [e \in Elems |-> TRUE]
    /\ labelOf = [e \in Elems |-> IF e = "e1" THEN <<"a">> ELSE NoAttr]

SearchCommand == [verb |-> "search", id |-> <<"a">>]

InitSearch == SearchPage /\ hasWebSocket = TRUE /\ InitCore
NextSearch ==
    \/ init(NoOptions, Null)
    \/ \E s \in SocketIds : SocketOpen(s)
    \/ \E s \in SocketIds :
          SocketMessage(s, SearchCommand, layout.rect, layout.vw, layout.vh)
SpecSearch == InitSearch /\ [][NextSearch]_vars

\* the rectangle lies entirely inside the window
FullyInView(l) ==
    /\ l.rect.top >= 0
    /\ l.rect.left >= 0
    /\ l.rect.bottom <= l.vh
    /\ l.rect.right <= l.vw

InViewResult ==
    [found |-> TRUE, visible |-> TRUE, markerId |-> <<"a">>,
     direction |-> "null", offsetX |-> 0, offsetY |-> 0]

\* C13 as claimed: every result sent for an element fully in view is
\* found, visible, with no direction.
C13_FullyInViewIsVisible ==
    FullyInView(layout) =>
        \A i \in DOMAIN outbox : outbox[i].result = InViewResult

\* C13 as amended: every result sent for an element fully in view whose
\* bottom edge leaves room for the overlay (bottom + 16 < window height) is
\* found, visible, with no direction.
C13_InViewAboveMarginIsVisible ==
    (FullyInView(layout) /\ layout.rect.bottom + MarkerSize < layout.vh) =>
        \A i \in DOMAIN outbox : outbox[i].result = InViewResult

\* C13 witness: a result went out for a rectangle that fills the window down
\* to the last row above the margin.
C13_Witness ==
    /\ FullyInView(layout)
    /\ layout.rect.bottom + MarkerSize = layout.vh - 1
    /\ layout.rect.right = layout.vw
    /\ outbox # <<>>

\* up or down, optionally combined with left or right
CombinedDirections ==
    {"up", "down", "up-left", "up-right", "down-left", "down-right"}

\* C14: in every result sent for a found element the direction is null
\* exactly when visible is true; when not visible it is up or down,
\* optionally combined with left or right, up for a rectangle entirely above
\* the window and left for one entirely left of it, so that a rectangle
\* entirely above and entirely left of the window gives "up-left".
C14_DirectionMatchesPosition ==
    \A i \in DOMAIN outbox :
        LET r == outbox[i].result
            above == layout.rect.bottom <= 0
            leftOf == layout.rect.right <= 0
        IN  /\ (r.direction = "null") = r.visible
            /\ ~r.visible => r.direction \in CombinedDirections
            /\ (~r.visible /\ above) =>
                  r.direction \in {"up", "up-left", "up-right"}
            /\ (~r.visible /\ leftOf) =>
                  r.direction \in {"up-left", "down-left"}
            /\ (above /\ leftOf) => r.direction = "up-left"

(***************************************************************************)
(* The encoder over digests whose bytes are 0, 255 or a single bit.        *)
(***************************************************************************)
ByteValues == {0, 255} \cup {Pow2(n) : n \in 0..7}

EncodePage ==
    /\ tagOf = [e \in Elems |-> "DIV"]
    /\ attrs = [e \in Elems |-> NoAttrs]
    /\ checked = [e \in Elems |-> FALSE]
    /\ values = [e \in Elems |-> <<>>]
    /\ layout = DefaultLayout
    /\ digest \in [DigestIndexes -> ByteValues]
    /\ linked = [e \in Elems |-> TRUE]
    /\ labelOf = [e \in Elems |-> IF e = "e1" THEN <<"a">> ELSE NoAttr]

InitEncode == EncodePage /\ hasWebSocket = FALSE /\ InitCore
NextEncode ==
    \/ scan(Body)
    \/ \E p \in encoding : EncodeComplete(p)
SpecEncode == InitEncode /\ [][NextEncode]_vars

\* bit k of the digest's bit-stream: bit (k mod 8), least significant first,
\* of byte floor(k / 8)
DigestBit(k) == (digest[k \div 8] \div Pow2(k % 8)) % 2

\* the 3-bit value at bit offsets k .. k + 2
Window(k) == DigestBit(k) + 2 * DigestBit(k + 1) + 4 * DigestBit(k + 2)

\* C15: the encoding rendered has borderColor equal to the low 3 bits of
\* digest byte 0 and, for each i in 0..8, cellColors[i] equal to the 3-bit
\* window of the digest's bit-stream at offset 8 + 3i; every code is in 0..7.
C15_EncoderBitPacking ==
    encoded # NoEncoding =>
        /\ encoded.borderColor = Window(0)
        /\ Len(encoded.cellColors) = 9
        /\ \A i \in 0..8 : encoded.cellColors[i + 1] = Window(8 + 3 * i)
        /\ encoded.borderColor \in 0..7
        /\ \A i \in 0..8 : encoded.cellColors[i + 1] \in 0..7

\* C15 witness: an overlay was rendered from a digest whose windows 2 and 5
\* take their top bits from the following byte.
C15_Witness ==
    /\ encoded # NoEncoding
    /\ digest[1] = 128 /\ digest[2] = 255 /\ digest[3] = 1
    /\ encoded.cellColors[3] = 6
    /\ encoded.cellColors[6] = 3

(***************************************************************************)
(* The reconciler's state machine.                                         *)
(***************************************************************************)
\* C16: there is at most one change subscription, and there is one exactly
\* when this.observer holds an observer; a step that starts the reconciler
\* while it is observing leaves the subscription as it was; a step after
\* which the reconciler is stopped leaves no subscription and no recorded
\* change behind; and a mutation batch is processed only while observing.
C16_ReconcilerStateMachine ==
    /\ [](observing = IF observer THEN 1 ELSE 0)
    /\ [](~observer => mutationQueue = {})
    /\ [][(observer /\ observer') => observing' = observing]_vars
    /\ [][DeliverMutations => (observer /\ observing = 1)]_vars

\* C16 witness: the reconciler was started by init() and stopped by
\* configure(), and an element that is in the document now with a non-empty
\* label was never handed to addMarker.
C16_Witness ==
    /\ initialized
    /\ ~observer
    /\ \E e \in PageElems :
          /\ InDocument(e)
          /\ labelOf[e] \notin {NoAttr, <<>>}
          /\ e \notin markedElements


\* the labeled elements of the subtrees the queued batch added: each added
\* root and everything below it that carries a non-empty label
AddedLabeled ==
    {e \in PageElems :
        /\ labelOf[e] \notin {NoAttr, <<>>}
        /\ \E root \in mutationQueue : e = root \/ IsDescendant(e, root)}

\* C17: while observing and enabled, every labeled element of every added
\* subtree of a batch is in the membership set when the batch handler
\* returns, and it gets an overlay once its encoding completes: an element a
\* batch covered that has had no overlay since still has an encoding in
\* flight.
C17_BatchCoverage ==
    /\ [][(DeliverMutations /\ config.enabled)
            => AddedLabeled \subseteq markedElements']_vars
    /\ [](\A e \in covered : Pending(e) > 0)


\* the elements the i-th logged pass gave a label
AssignedIn(i) ==
    {e \in Elems : passLog[i][e] = NoAttr /\ passLog[i + 1][e] # NoAttr}

\* C18: every label a pass of autoDiscover() assigned differs from every
\* label the document had before the pass and from every other label the
\* same pass assigned.
C18_DiscoveredLabelsUnique ==
    \A i \in 1..(Len(passLog) - 1) :
        \A e \in AssignedIn(i) :
            /\ \A x \in Elems :
                  passLog[i][x] # NoAttr => passLog[i + 1][e] # passLog[i][x]
            /\ \A other \in AssignedIn(i) \ {e} :
                  passLog[i + 1][other] # passLog[i + 1][e]

\* C18 witness: a pass labeled two elements whose first free candidate is
\* the same, and one of them would have taken a label the document already
\* had.
C18_Witness ==
    /\ Len(passLog) >= 2
    /\ \E e \in AssignedIn(1) : \E other \in AssignedIn(1) \ {e} :
          generateElementId(e, 0, {}) = generateElementId(other, 0, {})
    /\ \E e \in AssignedIn(1) : \E x \in Elems :
          /\ passLog[1][x] # NoAttr
          /\ generateElementId(e, 0, {}) = passLog[1][x]


\* the configuration is disabled, or the instance was disposed and has not
\* been enabled again
SwitchedOff == ~config.enabled \/ disposed

\* C19: whenever the configuration is disabled or the instance has been
\* disposed (and not re-enabled or re-initialised since), no overlay exists
\* in the document; in particular an addMarker call suspended on the digest
\* when configure({enabled:false}) or dispose() ran attaches no overlay when
\* it resumes.
C19_SwitchedOffMeansNoOverlays ==
    /\ [](SwitchedOff => QueryMarkers = {})
    /\ [][(SwitchedOff /\ SwitchedOff' /\ encoding' # encoding)
            => QueryMarkers' \subseteq QueryMarkers]_vars


\* C20: after init(), dispose(), init() with the configuration enabled, once
\* the pending encodings have completed every labeled element of the
\* document the last init() scanned has exactly one overlay.
C20_RemountRestoresOverlays ==
    (mountCycle = 3 /\ config.enabled /\ fullScans >= 1 /\ encoding = {}) =>
        \A e \in Elems : Labeled(e) => Overlays(e) = 1


\* the elements the interactive selectors match
Candidates == Range(Unique(AllElements(1)))

\* C24: after a pass of autoDiscover() every element that matched the
\* interactive selectors and had no label before the pass bears a non-empty
\* label.
C24_EveryCandidateLabeled ==
    \A i \in 1..(Len(passLog) - 1) :
        \A e \in Candidates :
            passLog[i][e] = NoAttr => passLog[i + 1][e] \notin {NoAttr, <<>>}


\* C21: the result of a command received on an open socket, if it is sent at
\* all, is sent on that same socket, and it is not dropped while that socket
\* is still open.
C21_ResultOnDeliveringSocket ==
    /\ [][\A s \in SocketIds :
            (/\ \E data \in Commands :
                   SocketMessage(s, data, InViewRect, CommandViewport.w,
                                 CommandViewport.h)
             /\ (outbox' # outbox \/ dropped' # dropped))
                => Fate(s) \notin {"other", "droppedOpen"}]_vars
    /\ [][\A p \in inflight :
            SelectTimeout(p)
                => Fate(routes[p.cmd]) \notin {"other", "droppedOpen"}]_vars


(***************************************************************************)
(* Result ordering on a single connection: init() runs once, its socket    *)
(* opens and is never closed, so every command arrives on that socket.     *)
(***************************************************************************)
OrderCommands ==
    { [verb |-> "search", id |-> <<"a">>],
      [verb |-> "read:text", id |-> <<"a">>],
      [verb |-> "read:value", id |-> <<"c">>],
      [verb |-> "check", id |-> <<"c">>],
      [verb |-> "uncheck", id |-> <<"c">>],
      [verb |-> "select", id |-> <<"c">>, option |-> <<"x">>],
      [verb |-> "select", id |-> <<"g">>, option |-> <<"x">>],
      [verb |-> "select", id |-> <<"a">>, option |-> <<"x">>],
      [verb |-> "select", id |-> <<"a">>, option |-> <<"y">>] }

NextOrder ==
    \/ ~initialized /\ init(NoOptions, Null)
    \/ \E s \in SocketIds : SocketOpen(s)
    \/ \E s \in SocketIds, data \in OrderCommands :
          SocketMessage(s, data, InViewRect, CommandViewport.w,
                        CommandViewport.h)
    \/ \E p \in inflight : SelectTimeout(p)
SpecOrder == InitCommands /\ [][NextOrder]_vars

\* C22: results are sent in the order their commands were received on the
\* connection, a select against a custom control included: the command
\* numbers of the results sent increase along the outbox.
C22_ResultsInReceiptOrder ==
    \A i, j \in DOMAIN outbox : i < j => outbox[i].cmd < outbox[j].cmd


(***************************************************************************)
(* Overlay visibility: show(), hide() and the scroll/resize listeners of   *)
(* the detached overlays.                                                  *)
(***************************************************************************)
\* a call of the public show()
ShowOverlays ==
    /\ show
    /\ visibility' = "shown"
    /\ UNCHANGED <<pageVars, formVars, stylesInjected, config, observer,
                   observing, mutationQueue, markedElements, encoding,
                   initialized, chanVars, cmdVars, encVars, reenabled,
                   fullScans, passLog, covered, disposed, mountCycle>>

\* a call of the public hide()
HideOverlays ==
    /\ hide
    /\ visibility' = "hidden"
    /\ UNCHANGED <<pageVars, formVars, stylesInjected, config, observer,
                   observing, mutationQueue, markedElements, encoding,
                   initialized, chanVars, cmdVars, encVars, reenabled,
                   fullScans, passLog, covered, disposed, mountCycle>>

\* updatePosition of a detached overlay: Object.assign gives it the
\* configured opacity again (its top and left are not part of the model)
updatePosition(m) == [m EXCEPT !.opacity = config.opacity]

\* a scroll or resize event of the window: the listener of every detached
\* overlay runs
WindowEvent ==
    /\ markers' = {IF m.detached THEN updatePosition(m) ELSE m :
                      m \in markers}
    /\ UNCHANGED <<pageVars, formVars, stylesInjected, config, observer,
                   observing, mutationQueue, markedElements, encoding,
                   initialized, chanVars, cmdVars, encVars, histVars>>

VisibilityOptions == {NoOptions, [opacity |-> 0]}

NextVisibility ==
    \/ \E o \in VisibilityOptions : init(o, Null)
    \/ \E p \in encoding : EncodeComplete(p)
    \/ ShowOverlays
    \/ HideOverlays
    \/ WindowEvent
SpecVisibility == InitCommands /\ [][NextVisibility]_vars

\* C23: after hide every rendered overlay, attached or detached, has
\* opacity 0 until the next show, and after show every rendered overlay has
\* opacity 1 until the next hide, whatever scroll and resize events occur
\* in between.
C23_HideIsSticky ==
    /\ visibility = "hidden" => \A m \in QueryMarkers : m.opacity = 0
    /\ visibility = "shown" => \A m \in QueryMarkers : m.opacity = 1

=============================================================================
